---- MODULE Spec2Model ----
(***************************************************************************)
(* Model of bill_extractor_app.py: the layout-tolerant field extractor.    *)
(*                                                                         *)
(* A Python str is a sequence of one-character strings, so that the        *)
(* regular expressions of the source are computed character by character. *)
(* Python's None is the value None below, the empty str is <<>>.           *)
(* Line indices are 0-based as in the source: line idx is lines[idx + 1].  *)
(***************************************************************************)
EXTENDS Integers, Sequences, FiniteSets

VARIABLES
    pdf_text,    \* the text handed to extract_all_fields
    lines,       \* the stripped, non-empty lines of pdf_text
    i,           \* parse_bidirectional's loop index (0-based); the anchor in SpecSearch
    results,     \* parse_bidirectional's local dictionary
    line_based,  \* what parse_bidirectional returned
    fallback,    \* what fallback_search_whole_text returned
    final,       \* what extract_all_fields returned
    pc,          \* position in the call
    found,       \* what a neighbourhood search returned (SpecSearch)
    prior,       \* an earlier call's text and result (SpecSession)
    calls        \* number of calls started (SpecSession)

vars == <<pdf_text, lines, i, results, line_based, fallback, final, pc, found, prior, calls>>

(***************************************************************************)
(* Characters and character classes of Python's re on the modelled         *)
(* alphabet (ASCII).                                                       *)
(***************************************************************************)
Uppers == <<"A","B","C","D","E","F","G","H","I","J","K","L","M",
            "N","O","P","Q","R","S","T","U","V","W","X","Y","Z">>
Lowers == <<"a","b","c","d","e","f","g","h","i","j","k","l","m",
            "n","o","p","q","r","s","t","u","v","w","x","y","z">>
UpperSet == {Uppers[k] : k \in 1..26}
LowerSet == {Lowers[k] : k \in 1..26}
DigitSet == {"0","1","2","3","4","5","6","7","8","9"}
SpaceSet == {" ", "\t", "\n", "\r", "\f"}
BreakSet == {"\n", "\r", "\f"}
PunctSet == {",", ".", "-", "_", ":", "/"}
Alphabet == UpperSet \cup LowerSet \cup DigitSet \cup SpaceSet \cup PunctSet

None == <<"None">>
EmptyStr == <<>>

IsDigit(c) == c \in DigitSet
IsAlpha(c) == c \in UpperSet \/ c \in LowerSet
IsWord(c)  == IsDigit(c) \/ IsAlpha(c) \/ c = "_"
IsSpace(c) == c \in SpaceSet

Min(S) == CHOOSE x \in S : \A y \in S : x <= y

lower_char(c) == IF c \in UpperSet THEN Lowers[CHOOSE k \in 1..26 : Uppers[k] = c] ELSE c

\* str.lower()
lower(s) == [k \in 1..Len(s) |-> lower_char(s[k])]

\* str.replace(",", "")
remove_commas(s) == SelectSeq(s, LAMBDA c : c # ",")

\* the literal lit is at position p of s
MatchAt(s, p, lit) ==
    /\ p >= 1
    /\ p + Len(lit) - 1 <= Len(s)
    /\ \A k \in 1..Len(lit) : s[p + k - 1] = lit[k]

\* the lower-case literal lit is at position p of s, letter case ignored (re.IGNORECASE)
MatchAtI(s, p, lit) ==
    /\ p >= 1
    /\ p + Len(lit) - 1 <= Len(s)
    /\ \A k \in 1..Len(lit) : lower_char(s[p + k - 1]) = lit[k]

\* Python's "sub in s"
Contains(s, sub) == \E p \in 1..(Len(s) - Len(sub) + 1) : MatchAt(s, p, sub)

\* str.replace(old, ""): every non-overlapping occurrence, left to right
RECURSIVE replace_with_empty(_, _)
replace_with_empty(s, old) ==
    IF Len(s) < Len(old) THEN s
    ELSE IF MatchAt(s, 1, old) THEN replace_with_empty(SubSeq(s, Len(old) + 1, Len(s)), old)
    ELSE <<s[1]>> \o replace_with_empty(Tail(s), old)

\* first position at or after p that is not a digit / a letter / white space
RECURSIVE DigitRunEnd(_, _)
DigitRunEnd(s, p) == IF p <= Len(s) /\ IsDigit(s[p]) THEN DigitRunEnd(s, p + 1) ELSE p

RECURSIVE AlphaRunEnd(_, _)
AlphaRunEnd(s, p) == IF p <= Len(s) /\ IsAlpha(s[p]) THEN AlphaRunEnd(s, p + 1) ELSE p

RECURSIVE SpaceRunEnd(_, _)
SpaceRunEnd(s, p) == IF p <= Len(s) /\ IsSpace(s[p]) THEN SpaceRunEnd(s, p + 1) ELSE p

\* \b between positions p-1 and p
WordBoundary(s, p) ==
    LET before == p - 1 >= 1 /\ p - 1 <= Len(s) /\ IsWord(s[p - 1])
        after  == p >= 1 /\ p <= Len(s) /\ IsWord(s[p])
    IN  before # after

\* \d+(?:\.\d+)? matched at p (s[p] is a digit): the position after the match
NumberEnd(s, p) ==
    LET a == DigitRunEnd(s, p)
    IN  IF a + 1 <= Len(s) /\ s[a] = "." /\ IsDigit(s[a + 1])
        THEN DigitRunEnd(s, a + 1)
        ELSE a

\* \d+(?:\.\d+) matched at p, the fraction required: the position after the
\* match, 0 when there is no match at p
DecimalEnd(s, p) ==
    IF ~(p <= Len(s) /\ IsDigit(s[p])) THEN 0
    ELSE LET a == DigitRunEnd(s, p)
         IN  IF a + 1 <= Len(s) /\ s[a] = "." /\ IsDigit(s[a + 1])
             THEN DigitRunEnd(s, a + 1)
             ELSE 0

\* re.search(r'\b([A-Za-z]{3,}-\d{4})\b', s): group 1, or None
MonthEnd(s, p) ==
    IF ~(p <= Len(s) /\ IsAlpha(s[p]) /\ WordBoundary(s, p)) THEN 0
    ELSE LET a == AlphaRunEnd(s, p)
         IN  IF /\ a - p >= 3
                /\ a + 4 <= Len(s)
                /\ s[a] = "-"
                /\ \A k \in 1..4 : IsDigit(s[a + k])
                /\ WordBoundary(s, a + 5)
             THEN a + 5
             ELSE 0

search_month(s) ==
    LET starts == {p \in 1..Len(s) : MonthEnd(s, p) # 0}
    IN  IF starts = {} THEN None
        ELSE LET p == Min(starts) IN SubSeq(s, p, MonthEnd(s, p) - 1)

\* re.search(r'\b(\d{3,6})\b', s): group 1, or None
UnitsEnd(s, p) ==
    IF ~(p <= Len(s) /\ IsDigit(s[p]) /\ WordBoundary(s, p)) THEN 0
    ELSE LET a == DigitRunEnd(s, p)
         IN  IF a - p >= 3 /\ a - p <= 6 /\ WordBoundary(s, a) THEN a ELSE 0

search_units(s) ==
    LET starts == {p \in 1..Len(s) : UnitsEnd(s, p) # 0}
    IN  IF starts = {} THEN None
        ELSE LET p == Min(starts) IN SubSeq(s, p, UnitsEnd(s, p) - 1)

extract_first_numeric(text_line) ==
    LET cleaned == remove_commas(text_line)
        starts  == {p \in 1..Len(cleaned) : IsDigit(cleaned[p])}
    IN  IF starts = {} THEN EmptyStr
        ELSE LET p == Min(starts) IN SubSeq(cleaned, p, NumberEnd(cleaned, p) - 1)

(***************************************************************************)
(* 1) Bidirectional search helpers                                         *)
(***************************************************************************)
max_offset == 3

Truthy(v) == v # None /\ v # EmptyStr

distance_score(line_idx, idx) == IF line_idx >= idx THEN line_idx - idx ELSE idx - line_idx

\* lines above (nearest first), the label line, lines below (nearest first)
indices_to_check(line_count, idx, offset) ==
    LET above == SelectSeq([up \in 1..offset |-> idx - up], LAMBDA x : x >= 0)
        below == SelectSeq([down \in 1..offset |-> idx + down], LAMBDA x : x < line_count)
    IN  above \o <<idx>> \o below

\* sorted(seq, key=distance_score): Python's sort is stable
RECURSIVE sorted_by_distance(_, _)
sorted_by_distance(seq, idx) ==
    IF seq = <<>> THEN <<>>
    ELSE LET n    == Len(seq)
             init == sorted_by_distance(SubSeq(seq, 1, n - 1), idx)
             x    == seq[n]
             k    == Cardinality({j \in 1..Len(init) :
                         distance_score(init[j], idx) <= distance_score(x, idx)})
         IN  SubSeq(init, 1, k) \o <<x>> \o SubSeq(init, k + 1, Len(init))

\* mutant: the candidates are examined in the order they were collected
indices_unsorted(line_count, idx, offset) == indices_to_check(line_count, idx, offset)

indices_sorted(line_count, idx, offset) ==
    sorted_by_distance(indices_to_check(line_count, idx, offset), idx)

search_numeric_around(ls, idx, offset) ==
    LET order == indices_sorted(Len(ls), idx, offset)
        hits  == {k \in 1..Len(order) : Truthy(extract_first_numeric(ls[order[k] + 1]))}
    IN  IF hits = {} THEN EmptyStr
        ELSE extract_first_numeric(ls[order[Min(hits)] + 1])

search_month_around(ls, idx, offset) ==
    LET order == indices_sorted(Len(ls), idx, offset)
        hits  == {k \in 1..Len(order) : Truthy(search_month(ls[order[k] + 1]))}
    IN  IF hits = {} THEN EmptyStr
        ELSE search_month(ls[order[Min(hits)] + 1])

search_units_consumed_around(ls, idx, offset) ==
    LET order == indices_sorted(Len(ls), idx, offset)
        hits  == {k \in 1..Len(order) : Truthy(search_units(remove_commas(ls[order[k] + 1])))}
    IN  IF hits = {} THEN EmptyStr
        ELSE search_units(remove_commas(ls[order[Min(hits)] + 1]))

(***************************************************************************)
(* 2) The main parse function                                              *)
(***************************************************************************)
Fields == {"Month", "Units Consumed", "Load Sanctioned", "Contract Demand", "Maximum Demand"}

AllNone == [f \in Fields |-> None]

L_month             == <<"m","o","n","t","h">>
L_units_consumed    == <<"u","n","i","t","s"," ","c","o","n","s","u","m","e","d">>
L_load_sanctioned   == <<"l","o","a","d"," ","s","a","n","c","t","i","o","n","e","d">>
L_contract_demand   == <<"c","o","n","t","r","a","c","t"," ","d","e","m","a","n","d">>
L_cont_demand       == <<"c","o","n","t","."," ","d","e","m","a","n","d">>
L_maximum_demand    == <<"m","a","x","i","m","u","m"," ","d","e","m","a","n","d">>
L_max_demand        == <<"m","a","x"," ","d","e","m","a","n","d">>
L_maximum__demand   == <<"m","a","x","i","m","u","m"," "," ","d","e","m","a","n","d">>
L_net_max_demand    == <<"n","e","t"," ","m","a","x"," ","d","e","m","a","n","d">>
L_total_units       == <<"t","o","t","a","l"," ","u","n","i","t","s">>
L_net_units_supplied == <<"n","e","t"," ","u","n","i","t","s"," ","s","u","p","p","l","i","e","d">>
L_units             == <<"u","n","i","t","s">>
L_consumed          == <<"c","o","n","s","u","m","e","d">>
L_kw                == <<"k","w">>
L_kva               == <<"k","v","a">>
FiveZeros           == <<".","0","0","0","0","0">>
NotFound            == <<"N","o","t"," ","F","o","u","n","d">>

\* the keywords the line scan tests for, per field
ScanLabels(f) ==
    CASE f = "Month"           -> {L_month}
      [] f = "Units Consumed"  -> {L_units_consumed}
      [] f = "Load Sanctioned" -> {L_load_sanctioned}
      [] f = "Contract Demand" -> {L_contract_demand, L_cont_demand}
      [] f = "Maximum Demand"  -> {L_maximum_demand, L_max_demand, L_maximum__demand,
                                   L_net_max_demand}

\* mutant: a unit marker on the line counts as a label of every field
is_label_or_unit(f, low) ==
    \/ \E kw \in ScanLabels(f) : Contains(low, kw)
    \/ Contains(low, L_kw)

\* the label test of one field on a lowercased line
is_label(f, low) == \E kw \in ScanLabels(f) : Contains(low, kw)

\* mutant: the test forgets that the field is resolved
unresolved_always(res, f) == TRUE

\* the "results[...] is None" half of each test
unresolved(res, f) == res[f] = None

\* the neighbourhood search of one field
search_around(f, ls, idx) ==
    CASE f = "Month"          -> search_month_around(ls, idx, max_offset)
      [] f = "Units Consumed" -> search_units_consumed_around(ls, idx, max_offset)
      [] OTHER                -> search_numeric_around(ls, idx, max_offset)

\* one iteration of the loop over the lines; the five fields' tests are
\* independent of each other
scan_line(ls, idx, res) ==
    LET low == lower(ls[idx + 1])
    IN  [f \in Fields |->
            IF is_label(f, low) /\ unresolved(res, f)
            THEN LET got == search_around(f, ls, idx)
                 IN  IF Truthy(got) THEN got ELSE res[f]
            ELSE res[f]]

RECURSIVE scan_from(_, _, _)
scan_from(ls, idx, res) ==
    IF idx >= Len(ls) THEN res ELSE scan_from(ls, idx + 1, scan_line(ls, idx, res))

parse_bidirectional(ls) == scan_from(ls, 0, AllNone)

(***************************************************************************)
(* 3) Fallback: text-wide search                                           *)
(***************************************************************************)
\* (\d{3,6})\s+units\s+consumed at p, letter case ignored: the position after
\* group 1, 0 when there is no match at p.  White space has to follow the
\* digits, so the group is the rest of the digit run p is in.
UnitsBeforeLabelEnd(s, p) ==
    IF ~(p <= Len(s) /\ IsDigit(s[p])) THEN 0
    ELSE LET a == DigitRunEnd(s, p)
             b == SpaceRunEnd(s, a)
             c == b + Len(L_units)
             d == SpaceRunEnd(s, c)
         IN  IF /\ a - p >= 3 /\ a - p <= 6
                /\ b > a /\ MatchAtI(s, b, L_units)
                /\ d > c /\ MatchAtI(s, d, L_consumed)
             THEN a ELSE 0

\* (?:total units|net units supplied)\s*(\d{3,6}) at p: <<start, end>> of
\* group 1 (end exclusive), <<0, 0>> when there is no match at p
UnitsAfterLabelSpan(s, p) ==
    LET labs == {lab \in {L_total_units, L_net_units_supplied} : MatchAtI(s, p, lab)}
    IN  IF labs = {} THEN <<0, 0>>
        ELSE LET lab == CHOOSE l \in labs : TRUE
                 b   == SpaceRunEnd(s, p + Len(lab))
                 run == DigitRunEnd(s, b) - b
             IN  IF run >= 3 THEN <<b, b + (IF run > 6 THEN 6 ELSE run)>> ELSE <<0, 0>>

\* (\d+(?:\.\d+))\s*(?:KW|KVA) at p: the position after the match, 0 when
\* there is no match at p
KwEnd(s, p) ==
    LET d == DecimalEnd(s, p)
    IN  IF d = 0 THEN 0
        ELSE LET b == SpaceRunEnd(s, d)
             IN  IF MatchAtI(s, b, L_kw) THEN b + Len(L_kw)
                 ELSE IF MatchAtI(s, b, L_kva) THEN b + Len(L_kva)
                 ELSE 0

\* re.findall of that pattern from position from on: the groups 1 of the
\* non-overlapping matches, left to right
RECURSIVE findall_kw(_, _)
findall_kw(s, from) ==
    LET starts == {p \in from..Len(s) : KwEnd(s, p) # 0}
    IN  IF starts = {} THEN <<>>
        ELSE LET p == Min(starts)
             IN  <<SubSeq(s, p, DecimalEnd(s, p) - 1)>> \o findall_kw(s, KwEnd(s, p))

\* (?:lab1|lab2|...)\s*(\d+(?:\.\d+)?) at p: the start of group 1, 0 when
\* there is no match at p
LabelNumberStart(s, p, labs) ==
    LET at == {lab \in labs : MatchAtI(s, p, lab)}
    IN  IF at = {} THEN 0
        ELSE LET lab == CHOOSE l \in at : TRUE
                 b   == SpaceRunEnd(s, p + Len(lab))
             IN  IF b <= Len(s) /\ IsDigit(s[b]) THEN b ELSE 0

search_label_number(s, labs) ==
    LET starts == {p \in 1..Len(s) : LabelNumberStart(s, p, labs) # 0}
    IN  IF starts = {} THEN None
        ELSE LET b == LabelNumberStart(s, Min(starts), labs)
             IN  SubSeq(s, b, NumberEnd(s, b) - 1)

fallback_month(cleaned) == search_month(cleaned)

fallback_units(cleaned) ==
    LET m1 == {p \in 1..Len(cleaned) : UnitsBeforeLabelEnd(cleaned, p) # 0}
        m2 == {p \in 1..Len(cleaned) : UnitsAfterLabelSpan(cleaned, p)[1] # 0}
    IN  IF m1 # {}
        THEN LET p == Min(m1) IN SubSeq(cleaned, p, UnitsBeforeLabelEnd(cleaned, p) - 1)
        ELSE IF m2 # {}
        THEN LET g == UnitsAfterLabelSpan(cleaned, Min(m2)) IN SubSeq(cleaned, g[1], g[2] - 1)
        ELSE None

\* the first KW/KVA-tagged number
fallback_load(cleaned) ==
    LET all_kw == findall_kw(cleaned, 1)
    IN  IF Len(all_kw) >= 1 THEN all_kw[1] ELSE None

\* the label's number, else the second KW/KVA-tagged number
fallback_contract(cleaned) ==
    LET all_kw == findall_kw(cleaned, 1)
        cd2    == search_label_number(cleaned, {L_contract_demand, L_cont_demand})
    IN  IF cd2 # None THEN cd2
        ELSE IF Len(all_kw) >= 2 THEN all_kw[2] ELSE None

fallback_maximum(cleaned) ==
    search_label_number(cleaned, {L_max_demand, L_maximum_demand, L_net_max_demand})

fallback_search_whole_text(text) ==
    LET cleaned == remove_commas(text)
    IN  [f \in Fields |->
            CASE f = "Month"           -> fallback_month(cleaned)
              [] f = "Units Consumed"  -> fallback_units(cleaned)
              [] f = "Load Sanctioned" -> fallback_load(cleaned)
              [] f = "Contract Demand" -> fallback_contract(cleaned)
              [] f = "Maximum Demand"  -> fallback_maximum(cleaned)]

(***************************************************************************)
(* 4) Combine approach                                                     *)
(***************************************************************************)
\* str.splitlines()
RECURSIVE splitlines(_)
splitlines(s) ==
    IF s = <<>> THEN <<>>
    ELSE LET brk == {p \in 1..Len(s) : s[p] \in BreakSet}
         IN  IF brk = {} THEN <<s>>
             ELSE LET p    == Min(brk)
                      next == IF p + 1 <= Len(s) /\ s[p] = "\r" /\ s[p + 1] = "\n"
                              THEN p + 2 ELSE p + 1
                  IN  <<SubSeq(s, 1, p - 1)>> \o splitlines(SubSeq(s, next, Len(s)))

\* str.strip()
strip(s) ==
    LET keep == {p \in 1..Len(s) : ~IsSpace(s[p])}
    IN  IF keep = {} THEN <<>>
        ELSE SubSeq(s, Min(keep), CHOOSE p \in keep : \A q \in keep : q <= p)

\* [ln.strip() for ln in pdf_text.splitlines() if ln.strip()]
tokenize(text) ==
    LET raw == splitlines(text)
    IN  SelectSeq([k \in 1..Len(raw) |-> strip(raw[k])], LAMBDA ln : ln # <<>>)

\* mutant: no sentinel is substituted
choose_value_no_sentinel(val_line, val_fb) ==
    IF Truthy(val_line) THEN val_line ELSE val_fb

\* mutant: the fallback value is preferred
choose_value_fallback_first(val_line, val_fb) ==
    LET chosen == IF Truthy(val_fb) THEN val_fb ELSE val_line
    IN  IF Truthy(chosen) THEN chosen ELSE NotFound

\* val_line if val_line else val_fb, then "Not Found"
choose_value(val_line, val_fb) ==
    LET chosen == IF Truthy(val_line) THEN val_line ELSE val_fb
    IN  IF Truthy(chosen) THEN chosen ELSE NotFound

\* chosen.replace(".00000", "")
clean_value(chosen) == replace_with_empty(chosen, FiveZeros)

merge(lb, fb) == [f \in Fields |-> clean_value(choose_value(lb[f], fb[f]))]

extract_all_fields(text) ==
    merge(parse_bidirectional(tokenize(text)), fallback_search_whole_text(text))

(***************************************************************************)
(* The inputs: texts of up to MaxLines lines taken from LineVocab, joined  *)
(* by line breaks.                                                         *)
(***************************************************************************)
MaxLines == 2

LineVocab == {
    <<"M","o","n","t","h"," ","M","A","R","-","2","0","2","5">>,
    <<"M","A","R","-","2","0","2","5">>,
    <<"L","o","a","d"," ","S","a","n","c","t","i","o","n","e","d"," ","3","5",".","0","0","0","0","0">>,
    <<"L","o","a","d"," ","S","a","n","c","t","i","o","n","e","d"," ","4","0",".","5">>,
    <<"3","5",".","0"," ","K","W">>,
    <<"3","5"," ","K","W">>,
    <<"3","5",".","0","0","0","0","0"," ","K","V","A">>,
    <<"N","e","t"," ","M","a","x"," ","D","e","m","a","n","d"," ","1","0","8",".","0","0","0","0","0">>,
    <<"M","a","x"," ","D","e","m","a","n","d"," ","1","0","8",".","0","0","0","0","0","1">>,
    <<"4",",","0","1","8","0","3","-","A","p","r","-","2","0","2","5"," ","U","n","i","t","s"," ","c","o","n","s","u","m","e","d">>,
    <<"4",",","0","1","8"," ","T","o","t","a","l"," ","U","n","i","t","s">>,
    <<"C","o","n","t","."," ","D","e","m","a","n","d">>,
    <<"C","o","n","t","r","a","c","t"," ","D","e","m","a","n","d"," ","1","2","0">>,
    <<"N","e","t"," ","U","n","i","t","s"," ","S","u","p","p","l","i","e","d"," ","2","8",",","2","6","1">>,
    <<" ","2","1",".","9","4"," ","k","v","a"," ">>,
    <<" "," ">> }

RECURSIVE JoinLines(_)
JoinLines(ls) ==
    IF ls = <<>> THEN <<>>
    ELSE IF Len(ls) = 1 THEN ls[1]
    ELSE ls[1] \o <<"\n">> \o JoinLines(Tail(ls))

TextsOver(vocab, n) == UNION {{JoinLines(d) : d \in [1..k -> vocab]} : k \in 0..n}

Docs == TextsOver(LineVocab, MaxLines)

(***************************************************************************)
(* extract_all_fields as a state machine: one call, step by step.          *)
(***************************************************************************)
\* mutant: the dictionary of the previous call is used again
stale_results == results

\* the dictionary parse_bidirectional creates at its start
fresh_results == [f \in Fields |-> None]

\* no earlier call is remembered
NoPrior == [text |-> <<>>, final |-> AllNone, set |-> FALSE]

Init ==
    /\ pdf_text \in Docs
    /\ lines = <<>>
    /\ i = 0
    /\ results = AllNone
    /\ line_based = AllNone
    /\ fallback = AllNone
    /\ final = AllNone
    /\ pc = "start"
    /\ found = None
    /\ prior = NoPrior
    /\ calls = 1

\* lines = [ln.strip() for ln in pdf_text.splitlines() if ln.strip()]
Tokenize ==
    /\ pc = "start"
    /\ lines' = tokenize(pdf_text)
    /\ pc' = "parse"
    /\ UNCHANGED <<pdf_text, i, results, line_based, fallback, final, found, prior, calls>>

\* parse_bidirectional is entered: results = {...: None}
ParseBegin ==
    /\ pc = "parse"
    /\ results' = fresh_results
    /\ i' = 0
    /\ pc' = "scan"
    /\ UNCHANGED <<pdf_text, lines, line_based, fallback, final, found, prior, calls>>

\* one iteration of "for i, line in enumerate(lines)"
ScanLine ==
    /\ pc = "scan"
    /\ i < Len(lines)
    /\ results' = scan_line(lines, i, results)
    /\ i' = i + 1
    /\ UNCHANGED <<pdf_text, lines, line_based, fallback, final, pc, found, prior, calls>>

\* return results
ParseReturn ==
    /\ pc = "scan"
    /\ i >= Len(lines)
    /\ line_based' = results
    /\ pc' = "fallback"
    /\ UNCHANGED <<pdf_text, lines, i, results, fallback, final, found, prior, calls>>

\* fallback = fallback_search_whole_text(pdf_text)
Fallback ==
    /\ pc = "fallback"
    /\ fallback' = fallback_search_whole_text(pdf_text)
    /\ pc' = "merge"
    /\ UNCHANGED <<pdf_text, lines, i, results, line_based, final, found, prior, calls>>

\* the merge loop and the return
Merge ==
    /\ pc = "merge"
    /\ final' = merge(line_based, fallback)
    /\ pc' = "done"
    /\ UNCHANGED <<pdf_text, lines, i, results, line_based, fallback, found, prior, calls>>

Next == Tokenize \/ ParseBegin \/ ScanLine \/ ParseReturn \/ Fallback \/ Merge

Spec == Init /\ [][Next]_vars

(***************************************************************************)
(* A session: the application's loop over the uploaded files calls         *)
(* extract_all_fields once per document, one call after the other.         *)
(***************************************************************************)
MaxSessionLines == 2
MaxCalls == 3

SessionVocab == {
    <<"M","o","n","t","h"," ","M","A","R","-","2","0","2","5">>,
    <<"L","o","a","d"," ","S","a","n","c","t","i","o","n","e","d"," ","4","0",".","5">>,
    <<"3","5",".","0"," ","K","W">> }

SessionDocs == TextsOver(SessionVocab, MaxSessionLines)

InitSession ==
    /\ pdf_text \in SessionDocs
    /\ lines = <<>>
    /\ i = 0
    /\ results = AllNone
    /\ line_based = AllNone
    /\ fallback = AllNone
    /\ final = AllNone
    /\ pc = "start"
    /\ found = None
    /\ prior = NoPrior
    /\ calls = 1

\* "for f in uploaded_files": the next document's text is extracted.  The
\* finished call's locals are gone; prior may remember its text and result.
NextCall ==
    /\ pc = "done"
    /\ calls < MaxCalls
    /\ pdf_text' \in SessionDocs
    /\ prior' \in {prior, [text |-> pdf_text, final |-> final, set |-> TRUE]}
    /\ calls' = calls + 1
    /\ lines' = <<>>
    /\ i' = 0
    /\ line_based' = AllNone
    /\ fallback' = AllNone
    /\ final' = AllNone
    /\ pc' = "start"
    /\ UNCHANGED <<results, found>>

NextSession == Tokenize \/ ParseBegin \/ ScanLine \/ ParseReturn \/ Fallback \/ Merge \/ NextCall

SpecSession == InitSession /\ [][NextSession]_vars

(***************************************************************************)
(* The three neighbourhood searches as functions of (lines, idx).          *)
(***************************************************************************)
MaxSearchLines == 7
MaxValued == 2

\* a line in which no search finds anything
Filler == <<"x">>

SearchVocab == {
    <<"4",",","0","1","8"," ","M","A","R","-","2","0","2","5">>,
    <<"1","2","0"," ","M","a","y","-","2","0","2","4">>,
    <<"3","5",".","0">> }

\* up to MaxSearchLines lines, of which at most MaxValued are not the filler
SearchDocs ==
    {d \in UNION {[1..k -> SearchVocab \cup {Filler}] : k \in 1..MaxSearchLines} :
        Cardinality({j \in DOMAIN d : d[j] # Filler}) <= MaxValued}

InitSearch ==
    /\ lines \in SearchDocs
    /\ i \in 0..(Len(lines) - 1)
    /\ pdf_text = <<>>
    /\ results = AllNone
    /\ line_based = AllNone
    /\ fallback = AllNone
    /\ final = AllNone
    /\ pc = "search"
    /\ found = None
    /\ prior = NoPrior
    /\ calls = 1

SearchNumeric ==
    /\ pc = "search"
    /\ found' = search_numeric_around(lines, i, max_offset)
    /\ pc' = "numeric"
    /\ UNCHANGED <<pdf_text, lines, i, results, line_based, fallback, final, prior, calls>>

SearchMonth ==
    /\ pc = "search"
    /\ found' = search_month_around(lines, i, max_offset)
    /\ pc' = "month"
    /\ UNCHANGED <<pdf_text, lines, i, results, line_based, fallback, final, prior, calls>>

SearchUnits ==
    /\ pc = "search"
    /\ found' = search_units_consumed_around(lines, i, max_offset)
    /\ pc' = "units"
    /\ UNCHANGED <<pdf_text, lines, i, results, line_based, fallback, final, prior, calls>>

NextSearch == SearchNumeric \/ SearchMonth \/ SearchUnits

SpecSearch == InitSearch /\ [][NextSearch]_vars

(***************************************************************************)
(* Properties.                                                             *)
(***************************************************************************)
IsStr(v) == \A k \in 1..Len(v) : v[k] \in Alphabet

Returned == pc = "done"

Parsed == pc \in {"fallback", "merge", "done"}

\* C1: for every input text, the empty one included, the result has exactly
\* the five field keys, each mapped to a non-null string (a value or
\* "Not Found"); for the empty text all five are "Not Found".
C1_Totality ==
    Returned =>
        /\ DOMAIN final = Fields
        /\ \A f \in Fields : final[f] # None /\ final[f] # EmptyStr /\ IsStr(final[f])
        /\ pdf_text = EmptyStr => \A f \in Fields : final[f] = NotFound

C1_Witness ==
    /\ Returned
    /\ \E f \in Fields : final[f] = NotFound
    /\ \E f \in Fields : final[f] # NotFound /\ final[f] # None

\* C2 as claimed: the result comes from the anchored value whenever it is
\* present; when it is absent and the fallback value is present the field
\* EQUALS the fallback match; it is "Not Found" exactly when both are absent.
C2_Original ==
    Returned =>
        \A f \in Fields :
            /\ Truthy(line_based[f]) => final[f] = clean_value(line_based[f])
            /\ (~Truthy(line_based[f]) /\ Truthy(fallback[f])) =>
                   final[f] = fallback[f] /\ final[f] # NotFound
            /\ final[f] = NotFound <=> (~Truthy(line_based[f]) /\ ~Truthy(fallback[f]))

\* C2 amended: as above, but a field taken from the fallback is the fallback
\* match after the ".00000" clean-up that the merge applies to every value.
C2_PreferAnchored ==
    Returned =>
        \A f \in Fields :
            /\ Truthy(line_based[f]) => final[f] = clean_value(line_based[f])
            /\ (~Truthy(line_based[f]) /\ Truthy(fallback[f])) =>
                   final[f] = clean_value(fallback[f]) /\ final[f] # NotFound
            /\ final[f] = NotFound <=> (~Truthy(line_based[f]) /\ ~Truthy(fallback[f]))

C2_Witness ==
    /\ Returned
    /\ \E f \in Fields : ~Truthy(line_based[f]) /\ Truthy(fallback[f])
    /\ \E f \in Fields : /\ Truthy(line_based[f]) /\ Truthy(fallback[f])
                         /\ clean_value(line_based[f]) # clean_value(fallback[f])

\* the lines that anchor field f with a value in their neighbourhood
ValuedAnchors(f) ==
    {k \in 0..(Len(lines) - 1) :
        is_label(f, lower(lines[k + 1])) /\ Truthy(search_around(f, lines, k))}

\* C3: during the scan a field that has been resolved is never overwritten by
\* a later line, so the scan returns, for each field, the value found around
\* the earliest line that anchors it with a value.
C3_FirstMatchWins ==
    /\ [][\A f \in Fields : (pc = "scan" /\ results[f] # None) => results'[f] = results[f]]_vars
    /\ [](Parsed => \A f \in Fields :
             line_based[f] = IF ValuedAnchors(f) = {} THEN None
                             ELSE search_around(f, lines, Min(ValuedAnchors(f))))

C3_Witness ==
    /\ Parsed
    /\ \E f \in Fields : \E k, l \in ValuedAnchors(f) :
           /\ k < l
           /\ search_around(f, lines, k) # search_around(f, lines, l)
           /\ line_based[f] = search_around(f, lines, k)

\* C4: the result for a text does not depend on the documents extracted
\* before it: a call on a text extracted earlier in the session returns what
\* the earlier call returned.
C4_NoCrossDocumentState ==
    (Returned /\ prior.set /\ prior.text = pdf_text) => final = prior.final

C4_Witness ==
    /\ Returned
    /\ calls >= 3
    /\ prior.set
    /\ prior.text = pdf_text
    /\ results # AllNone
    /\ \E f \in Fields : final[f] = NotFound

JammedLine == <<"4",",","0","1","8","0","3","-","A","p","r","-","2","0","2","5"," ","U","n","i","t","s"," ","c","o","n","s","u","m","e","d">>

\* C5: for the jammed line "4,01803-Apr-2025 Units consumed" the embedded date
\* is removed before the digit search and Units Consumed is "4018".
C5_JammedDateRemoved ==
    (Returned /\ pdf_text = JammedLine) => final["Units Consumed"] = <<"4","0","1","8">>

\* the value with a trailing ".00000" removed, unchanged when it does not end so
StripTrailingFiveZeros(v) ==
    IF Len(v) >= Len(FiveZeros) /\ MatchAt(v, Len(v) - Len(FiveZeros) + 1, FiveZeros)
    THEN SubSeq(v, 1, Len(v) - Len(FiveZeros))
    ELSE v

\* C6: every output is the resolved value with an exact trailing ".00000"
\* removed when it ends with it, and the resolved value itself otherwise;
\* "Not Found" is left unchanged.
C6_TrailingSuffixOnly ==
    Returned =>
        \A f \in Fields :
            final[f] = StripTrailingFiveZeros(choose_value(line_based[f], fallback[f]))

L_bill_month == <<"b","i","l","l"," ","m","o","n","t","h">>

\* the label synonyms the specification lists, per field
ListedSynonyms(f) ==
    CASE f = "Month"           -> {L_month, L_bill_month}
      [] f = "Units Consumed"  -> {L_units_consumed, L_total_units, L_net_units_supplied}
      [] f = "Load Sanctioned" -> {L_load_sanctioned}
      [] f = "Contract Demand" -> {L_contract_demand, L_cont_demand}
      [] f = "Maximum Demand"  -> {L_maximum_demand, L_max_demand, L_net_max_demand}

HasListedSynonym(f, line) == \E syn \in ListedSynonyms(f) : Contains(lower(line), syn)

NoListedLabel ==
    \A k \in 1..Len(lines) : \A f \in Fields : ~HasListedSynonym(f, lines[k])

\* no listed synonym, and not the scan's own extra keyword "maximum  demand"
NoRecognisedLabel ==
    /\ NoListedLabel
    /\ \A k \in 1..Len(lines) : ~Contains(lower(lines[k]), L_maximum__demand)

\* C7 as claimed: a text none of whose lines contains a listed label synonym
\* yields "Not Found" for all five fields.
C7_Original ==
    (Returned /\ NoListedLabel) => \A f \in Fields : final[f] = NotFound

\* C7 amended: in a text none of whose lines contains a label the line scan
\* recognises, the anchored search resolves nothing, and each field is the
\* cleaned whole-text fallback value when the fallback matches and
\* "Not Found" only otherwise.
C7_NoLabelFallbackOnly ==
    (Returned /\ NoRecognisedLabel) =>
        /\ line_based = AllNone
        /\ \A f \in Fields :
               final[f] = IF Truthy(fallback[f]) THEN clean_value(fallback[f]) ELSE NotFound

C7_Witness ==
    /\ Returned
    /\ NoRecognisedLabel
    /\ Len(lines) >= 2
    /\ \E f \in Fields : final[f] # NotFound
    /\ \E f \in Fields : final[f] = NotFound

\* the order C8 claims: the anchor, then by increasing distance up to 3, the
\* line above before the line below, existing lines only
ClaimedOrder(line_count, idx) ==
    SelectSeq(<<idx, idx - 1, idx + 1, idx - 2, idx + 2, idx - 3, idx + 3>>,
              LAMBDA x : x >= 0 /\ x < line_count)

\* the match of one search in one line ("" or None when there is none)
LineMatch(kind, line) ==
    CASE kind = "numeric" -> extract_first_numeric(line)
      [] kind = "month"   -> search_month(line)
      [] kind = "units"   -> search_units(remove_commas(line))

ClaimedResult(kind, ls, idx) ==
    LET order == ClaimedOrder(Len(ls), idx)
        hits  == {k \in 1..Len(order) : Truthy(LineMatch(kind, ls[order[k] + 1]))}
    IN  IF hits = {} THEN EmptyStr
        ELSE LineMatch(kind, ls[order[Min(hits)] + 1])

\* C8: each neighbourhood search examines the existing lines at distance at
\* most 3 from the anchor, the anchor first, then by increasing distance, above
\* before below, and returns the match of the first examined line that has
\* one, the empty result when none has.
C8_NearestFirst ==
    pc \in {"numeric", "month", "units"} => found = ClaimedResult(pc, lines, i)

C8_Witness ==
    /\ pc = "numeric"
    /\ i >= 3
    /\ i + 3 < Len(lines)
    /\ ~Truthy(LineMatch("numeric", lines[i + 1]))
    /\ \E d \in 2..3 :
          /\ \A e \in 1..(d - 1) : /\ ~Truthy(LineMatch("numeric", lines[i + 1 - e]))
                                   /\ ~Truthy(LineMatch("numeric", lines[i + 1 + e]))
          /\ Truthy(LineMatch("numeric", lines[i + 1 - d]))
          /\ Truthy(LineMatch("numeric", lines[i + 1 + d]))
          /\ LineMatch("numeric", lines[i + 1 - d]) # LineMatch("numeric", lines[i + 1 + d])
          /\ found = LineMatch("numeric", lines[i + 1 - d])

\* (\d+(?:\.\d+)?)\s*(?:KW|KVA) at p, the fraction optional
TaggedNumberAt(s, p) ==
    /\ p <= Len(s)
    /\ IsDigit(s[p])
    /\ LET b == SpaceRunEnd(s, NumberEnd(s, p))
       IN  MatchAtI(s, b, L_kw) \/ MatchAtI(s, b, L_kva)

FirstTaggedNumber(s) ==
    LET starts == {p \in 1..Len(s) : TaggedNumberAt(s, p)}
    IN  IF starts = {} THEN None
        ELSE LET p == Min(starts) IN SubSeq(s, p, NumberEnd(s, p) - 1)

\* C9: the fallback's Sanctioned Load is the first number, decimal or integer,
\* immediately followed by KW or KVA in the comma-stripped text, whatever is
\* found for Contract Demand; "35 KW" gives "35".
C9_IntegerOrDecimalTagged ==
    pc \in {"merge", "done"} =>
        fallback["Load Sanctioned"] = FirstTaggedNumber(remove_commas(pdf_text))

\* C10: a line whose lowercased content contains any listed synonym of a field
\* is an anchor for that field: when such a line has a value of the field's
\* shape in its neighbourhood, the scan resolves the field.
C10_AllSynonymsAnchor ==
    Parsed =>
        \A f \in Fields :
            (\E k \in 0..(Len(lines) - 1) :
                 HasListedSynonym(f, lines[k + 1]) /\ Truthy(search_around(f, lines, k)))
            => line_based[f] # None
====
